---- MODULE Spec2Model ----
(***************************************************************************)
(* A state-machine model of the multi-tenant operations tracker in        *)
(* src/app.py: the SQLite tables (companies, users, leads, jobs,          *)
(* invoices, tasks), the signed session cookie of each browser, the       *)
(* process start-up (init_db + ensure_super_admin) and one action per     *)
(* route handler.                                                          *)
(*                                                                         *)
(* Conventions                                                             *)
(*   - a table is a sequence of rows; a row's id is its position, as      *)
(*     AUTOINCREMENT ids start at 1 and no row is ever deleted;           *)
(*   - a NULL integer column is 0, a NULL text column is NULL;            *)
(*   - a form field that is absent from the request is None;              *)
(*   - lower-case operators named after a function of app.py compute the  *)
(*     function's result (response and new table contents) from the       *)
(*     current state; the CamelCase action of the same name is the        *)
(*     request arriving and that result being committed.                  *)
(***************************************************************************)
EXTENDS Integers, Sequences, FiniteSets, TLC

VARIABLES
    proc,       \* the server process: "down", "up" or "failed" (import raised)
    companies,  \* table companies
    users,      \* table users
    leads,      \* table leads
    jobs,       \* table jobs
    invoices,   \* table invoices
    tasks,      \* table tasks
    session,    \* session[c]: the session cookie held by browser c
    pc,         \* pc[c]: where browser c's in-flight signup request stands
    local,      \* local[c]: the local variables of that signup request
    now,        \* the wall clock read by datetime.now(), in ticks
    req,        \* the last request that was answered
    resp        \* the answer it got

db == <<companies, users, leads, jobs, invoices, tasks>>
vars == <<proc, companies, users, leads, jobs, invoices, tasks,
          session, pc, local, now, req, resp>>

-----------------------------------------------------------------------------
(* Bounds of the model *)

MaxCompanies == 3   \* rows of companies
MaxRows == 3        \* rows of leads, jobs, invoices and tasks together
MaxInvoices == 2    \* rows of invoices, where the leads and jobs are given
MaxTime == 2        \* the last tick of the clock

Clients == {"c1", "c2"}

-----------------------------------------------------------------------------
(* Values *)

None == "<None>"
NULL == "<NULL>"

OwnerCompanyName == "APtech Solutions"
OwnerUsername == "aptech_owner"

NoSession == [user_id |-> 0, company_id |-> 0]
NoLocal == [company_name |-> "", username |-> "", password |-> "", company_id |-> 0]
NoRequest == [op |-> "none", id |-> 0]
NoResponse == [status |-> 0, target |-> "", error |-> ""]

\* str.strip() on the strings the requests of this model carry
Strip(s) ==
    CASE s = " " -> ""
      [] s = " Won " -> "Won"
      [] s = " alice " -> "alice"
      [] s = " Completed " -> "Completed"
      [] s = " 2024-05-01 " -> "2024-05-01"
      [] OTHER -> s

\* str.lower() on the usernames the requests of this model carry
Lower(s) ==
    CASE s = "Aptech_Owner" -> "aptech_owner"
      [] OTHER -> s

\* (request.form.get(k) or dflt): None and "" are falsy
OrDefault(v, dflt) == IF v = None \/ v = "" THEN dflt ELSE v

\* werkzeug generate_password_hash / check_password_hash
generate_password_hash(password) == <<"hash", password>>
check_password_hash(pwhash, password) == pwhash = <<"hash", password>>

Redirect(to) == [status |-> 302, target |-> to, error |-> ""]
Abort(code) == [status |-> code, target |-> "", error |-> ""]
Render(page, error) == [status |-> 200, target |-> page, error |-> error]

\* The tables as one record, and a handler's result: its response and the
\* tables as it leaves them (what it committed).
Tables ==
    [companies |-> companies, users |-> users, leads |-> leads,
     jobs |-> jobs, invoices |-> invoices, tasks |-> tasks]
Result(response, tables) == [resp |-> response, db |-> tables]

Commit(r) ==
    /\ companies' = r.db.companies
    /\ users' = r.db.users
    /\ leads' = r.db.leads
    /\ jobs' = r.db.jobs
    /\ invoices' = r.db.invoices
    /\ tasks' = r.db.tasks

Idle == \A c \in Clients : pc[c] = "idle"

-----------------------------------------------------------------------------
(* Process start: init_db() and ensure_super_admin() at import *)

EnvPasswords == {None, "", "s3cret"}

\* (mutant) the owner company is looked up under a name it was not given
owner_company_row_misspelt ==
    IF \E i \in DOMAIN companies : companies[i].name = "Aptech Solutions"
    THEN CHOOSE i \in DOMAIN companies : companies[i].name = "Aptech Solutions"
    ELSE 0

\* SELECT id FROM companies WHERE name='APtech Solutions' (fetchone), 0 if no row
owner_company_row ==
    IF \E i \in DOMAIN companies : companies[i].name = OwnerCompanyName
    THEN CHOOSE i \in DOMAIN companies :
            /\ companies[i].name = OwnerCompanyName
            /\ \A j \in DOMAIN companies :
                 companies[j].name = OwnerCompanyName => i <= j
    ELSE 0

\* SELECT 1 FROM users WHERE role='super_admin' LIMIT 1
super_admin_exists == \E i \in DOMAIN users : users[i].role = "super_admin"

\* (mutant) without a password the start goes on, with no super admin created
ensure_super_admin_lenient(password) ==
    LET row == owner_company_row
        comps == IF row # 0 THEN companies
                 ELSE Append(companies, [name |-> OwnerCompanyName])
        owner_company_id == IF row # 0 THEN row ELSE Len(comps)
        owner == [company_id |-> owner_company_id,
                  username |-> OwnerUsername,
                  password_hash |-> generate_password_hash(password),
                  role |-> "super_admin"]
    IN  IF super_admin_exists \/ password = None \/ password = ""
        THEN [raised |-> "", db |-> [Tables EXCEPT !.companies = comps]]
        ELSE IF \E i \in DOMAIN users : users[i].username = OwnerUsername
        THEN [raised |-> "IntegrityError",
              db |-> [Tables EXCEPT !.companies = comps]]
        ELSE [raised |-> "",
              db |-> [Tables EXCEPT !.companies = comps,
                                    !.users = Append(users, owner)]]

\* ensure_super_admin with SUPER_ADMIN_PASSWORD = password: the exception it
\* raises ("" if none) and the tables as committed when it ends. The owner
\* company is committed (line 152) before the password is looked at.
ensure_super_admin(password) ==
    LET row == owner_company_row
        comps == IF row # 0 THEN companies
                 ELSE Append(companies, [name |-> OwnerCompanyName])
        owner_company_id == IF row # 0 THEN row ELSE Len(comps)
        owner == [company_id |-> owner_company_id,
                  username |-> OwnerUsername,
                  password_hash |-> generate_password_hash(password),
                  role |-> "super_admin"]
    IN  IF super_admin_exists
        THEN [raised |-> "", db |-> [Tables EXCEPT !.companies = comps]]
        ELSE IF password = None \/ password = ""
        THEN [raised |-> "RuntimeError",
              db |-> [Tables EXCEPT !.companies = comps]]
        ELSE IF \E i \in DOMAIN users : users[i].username = OwnerUsername
        THEN [raised |-> "IntegrityError",
              db |-> [Tables EXCEPT !.companies = comps]]
        ELSE [raised |-> "",
              db |-> [Tables EXCEPT !.companies = comps,
                                    !.users = Append(users, owner)]]

\* The process is started (or started again after a stop or a failed start).
Start ==
    /\ proc # "up"
    /\ \E password \in EnvPasswords :
         LET r == ensure_super_admin(password) IN
         /\ Commit(r)
         /\ proc' = IF r.raised = "" THEN "up" ELSE "failed"
         /\ req' = [op |-> "startup", id |-> 0]
         /\ resp' = [status |-> 0, target |-> "", error |-> r.raised]
    /\ UNCHANGED <<session, pc, local, now>>

\* The process is stopped once the requests in flight have been answered.
Stop ==
    /\ proc = "up"
    /\ Idle
    /\ proc' = "down"
    /\ UNCHANGED <<companies, users, leads, jobs, invoices, tasks,
                   session, pc, local, now, req, resp>>

-----------------------------------------------------------------------------
(* Auth helpers *)

\* login_required: TRUE when the wrapper redirects to /login
login_required(s) == s.user_id = 0 \/ s.company_id = 0

\* current_company_id: the session's company id, 0 when it aborts with 401
current_company_id(s) == s.company_id

\* (mutant) any user row passes, whatever its role
super_admin_required_any_role(s) ==
    IF s.user_id = 0 THEN Redirect("login")
    ELSE IF s.user_id \notin DOMAIN users THEN Abort(403)
    ELSE NoResponse

\* super_admin_required: the wrapper's answer, NoResponse when it calls the view
super_admin_required(s) ==
    IF s.user_id = 0 THEN Redirect("login")
    ELSE IF s.user_id \notin DOMAIN users
            \/ users[s.user_id].role # "super_admin" THEN Abort(403)
    ELSE NoResponse

\* (mutant) only the users of role admin are counted
any_admin_users_exist == \E i \in DOMAIN users : users[i].role = "admin"

\* SELECT COUNT(*) FROM users > 0
any_users_exist == Len(users) > 0

\* SELECT * FROM users WHERE username=? (fetchone) in table us, 0 if no row
user_by_username(us, username) ==
    IF \E i \in DOMAIN us : us[i].username = username
    THEN CHOOSE i \in DOMAIN us : us[i].username = username
    ELSE 0

-----------------------------------------------------------------------------
(* /setup *)

\* The requests the browsers send: a GET carries no form, a POST a form whose
\* fields are drawn from these values (None: the field is absent).
CompanyNameInputs == {None, "Acme", OwnerCompanyName}
UsernameInputs == {"", "alice", " alice ", "bob", "Aptech_Owner"}
PasswordInputs == {None, "pw1"}
LoginUsernameInputs == {"alice", "bob", OwnerUsername, "carol"}
LoginPasswordInputs == {"pw1", "s3cret"}

AccountForms ==
    [method : {"POST"}, company_name : CompanyNameInputs,
     username : UsernameInputs, password : PasswordInputs]
    \cup {[method |-> "GET", company_name |-> None, username |-> None,
            password |-> None]}
SetupForms ==
    {f \in AccountForms :
        \/ f.method = "GET"
        \/ f.company_name = "Acme" /\ f.username = "alice" /\ f.password = "pw1"
        \/ f.company_name = None /\ f.username = "" /\ f.password = None}
\* The forms the browsers send to /signup: a GET, every complete form, and
\* one that lacks every field
SignupForms ==
    {f \in AccountForms :
        \/ f.method = "GET"
        \/ f.company_name # None /\ f.password # None
        \/ f.company_name = None /\ f.username = "" /\ f.password = None}
LoginForms ==
    [method : {"POST"}, username : LoginUsernameInputs,
     password : LoginPasswordInputs]
    \cup {[method |-> "GET", username |-> None, password |-> None]}

\* UPDATE t SET company_id=? WHERE company_id IS NULL
backfill(rows, company_id) ==
    [i \in DOMAIN rows |->
        IF rows[i].company_id = 0
        THEN [rows[i] EXCEPT !.company_id = company_id]
        ELSE rows[i]]

setup(method, company_name_raw, username_raw, password_raw) ==
    LET company_name == Strip(OrDefault(company_name_raw, ""))
        username == Strip(OrDefault(username_raw, ""))
        password == Strip(OrDefault(password_raw, ""))
        company_id == Len(companies) + 1
        admin == [company_id |-> company_id, username |-> username,
                  password_hash |-> generate_password_hash(password),
                  role |-> "admin"]
    IN  IF any_users_exist THEN Result(Redirect("login"), Tables)
        ELSE IF method # "POST" THEN Result(Render("setup.html", ""), Tables)
        ELSE IF company_name = "" \/ username = "" \/ password = ""
        THEN Result(Render("setup.html", "All fields are required."), Tables)
        ELSE Result(Redirect("login"),
                    [Tables EXCEPT
                       !.companies = Append(companies, [name |-> company_name]),
                       !.users = Append(users, admin),
                       !.leads = backfill(leads, company_id),
                       !.jobs = backfill(jobs, company_id),
                       !.invoices = backfill(invoices, company_id)])

Setup(c) ==
    /\ proc = "up"
    /\ \E f \in SetupForms :
         LET r == setup(f.method, f.company_name, f.username, f.password) IN
         /\ pc[c] = "idle"
         /\ Len(r.db.companies) <= MaxCompanies
         /\ Commit(r)
         /\ req' = [op |-> "setup", id |-> 0]
         /\ resp' = r.resp
    /\ UNCHANGED <<proc, session, pc, local, now>>

-----------------------------------------------------------------------------
(* /signup: one request is three database steps, each its own transaction, *)
(* so requests of other browsers can run between them                      *)

\* (mutant) the duplicate SELECT of lines 317-324 is missing
signup_check_without_select(method, company_name_raw, username_raw, password_raw) ==
    LET company_name == Strip(OrDefault(company_name_raw, ""))
        username == Strip(OrDefault(username_raw, ""))
        password == Strip(OrDefault(password_raw, ""))
    IN  IF method # "POST" THEN Result(Render("signup.html", ""), Tables)
        ELSE IF company_name = "" \/ username = "" \/ password = ""
        THEN Result(Render("signup.html", "All fields are required."), Tables)
        ELSE IF Lower(username) = OwnerUsername
        THEN Result(Render("signup.html",
                           "That username is reserved. Please choose another."),
                    Tables)
        ELSE Result(NoResponse, Tables)

\* Lines 299-324: the validation, the reserved-name test and the duplicate
\* SELECT. The result that ends the request there, or one with NoResponse
\* when the request goes on to create the company.
signup_check(method, company_name_raw, username_raw, password_raw) ==
    LET company_name == Strip(OrDefault(company_name_raw, ""))
        username == Strip(OrDefault(username_raw, ""))
        password == Strip(OrDefault(password_raw, ""))
    IN  IF method # "POST" THEN Result(Render("signup.html", ""), Tables)
        ELSE IF company_name = "" \/ username = "" \/ password = ""
        THEN Result(Render("signup.html", "All fields are required."), Tables)
        ELSE IF Lower(username) = OwnerUsername
        THEN Result(Render("signup.html",
                           "That username is reserved. Please choose another."),
                    Tables)
        ELSE IF user_by_username(users, username) # 0
        THEN Result(Render("signup.html",
                           "That username is already taken. Try another."),
                    Tables)
        ELSE Result(NoResponse, Tables)

InFlight == Cardinality({c \in Clients : pc[c] # "idle"})

\* The request arrives; it is answered at once when a check rejects it.
SignupBegin(c) ==
    /\ proc = "up"
    /\ \E f \in SignupForms :
         LET r == signup_check(f.method, f.company_name, f.username, f.password) IN
         /\ pc[c] = "idle"
         /\ Commit(r)
         /\ IF r.resp = NoResponse
            THEN /\ Len(companies) + InFlight < MaxCompanies
                 /\ pc' = [pc EXCEPT ![c] = "create_company"]
                 /\ local' = [local EXCEPT ![c] =
                        [company_name |-> Strip(OrDefault(f.company_name, "")),
                         username |-> Strip(OrDefault(f.username, "")),
                         password |-> Strip(OrDefault(f.password, "")),
                         company_id |-> 0]]
                 /\ UNCHANGED <<req, resp>>
            ELSE /\ req' = [op |-> "signup", id |-> 0]
                 /\ resp' = r.resp
                 /\ UNCHANGED <<pc, local>>
    /\ UNCHANGED <<proc, session, now>>

\* Lines 326-332: INSERT INTO companies, commit, last_insert_rowid().
SignupCreateCompany(c) ==
    /\ proc = "up"
    /\ pc[c] = "create_company"
    /\ companies' = Append(companies, [name |-> local[c].company_name])
    /\ local' = [local EXCEPT ![c].company_id = Len(companies) + 1]
    /\ pc' = [pc EXCEPT ![c] = "create_user"]
    /\ UNCHANGED <<proc, users, leads, jobs, invoices, tasks,
                   session, now, req, resp>>

\* Lines 334-354 for the request with locals l: INSERT INTO users (the UNIQUE
\* constraint on username raises IntegrityError, answered with 500, and the
\* connection rolls back what is uncommitted: nothing), commit, SELECT the
\* user, set the session.
signup_create_user(l, s) ==
    LET admin == [company_id |-> l.company_id, username |-> l.username,
                  password_hash |-> generate_password_hash(l.password),
                  role |-> "admin"]
        us == Append(users, admin)
        user_id == user_by_username(us, l.username)
    IN  IF user_by_username(users, l.username) # 0
        THEN [resp |-> Abort(500), db |-> Tables, session |-> s]
        ELSE [resp |-> Redirect("dashboard"),
              db |-> [Tables EXCEPT !.users = us],
              session |-> [user_id |-> user_id,
                           company_id |-> us[user_id].company_id]]

SignupCreateUser(c) ==
    /\ proc = "up"
    /\ LET r == signup_create_user(local[c], session[c]) IN
         /\ pc[c] = "create_user"
         /\ Commit(r)
         /\ session' = [session EXCEPT ![c] = r.session]
         /\ pc' = [pc EXCEPT ![c] = "idle"]
         /\ local' = [local EXCEPT ![c] = NoLocal]
         /\ req' = [op |-> "signup", id |-> 0]
         /\ resp' = r.resp
    /\ UNCHANGED <<proc, now>>

-----------------------------------------------------------------------------
(* /login and /logout *)

login(s, method, username_raw, password_raw) ==
    LET username == Strip(OrDefault(username_raw, ""))
        password == Strip(OrDefault(password_raw, ""))
        user_id == user_by_username(users, username)
    IN  IF ~any_users_exist
        THEN [resp |-> Redirect("setup"), session |-> s]
        ELSE IF method # "POST"
        THEN [resp |-> Render("login.html", ""), session |-> s]
        ELSE IF user_id # 0
                /\ check_password_hash(users[user_id].password_hash, password)
        THEN [resp |-> Redirect("dashboard"),
              session |-> [user_id |-> user_id,
                           company_id |-> users[user_id].company_id]]
        ELSE [resp |-> Render("login.html", "Wrong username or password."),
              session |-> s]

Login(c) ==
    /\ proc = "up"
    /\ \E f \in LoginForms :
         LET r == login(session[c], f.method, f.username, f.password) IN
         /\ pc[c] = "idle"
         /\ session' = [session EXCEPT ![c] = r.session]
         /\ req' = [op |-> "login", id |-> 0]
         /\ resp' = r.resp
    /\ UNCHANGED <<proc, companies, users, leads, jobs, invoices, tasks,
                   pc, local, now>>

logout(s) == [resp |-> Redirect("login"), session |-> NoSession]

Logout(c) ==
    /\ proc = "up"
    /\ LET r == logout(session[c]) IN
         /\ pc[c] = "idle"
         /\ session' = [session EXCEPT ![c] = r.session]
         /\ req' = [op |-> "logout", id |-> 0]
         /\ resp' = r.resp
    /\ UNCHANGED <<proc, companies, users, leads, jobs, invoices, tasks,
                   pc, local, now>>

\* app.secret_key, the key Flask signs the session cookie with: a literal of
\* the source
secret_key == "change-this-to-a-long-random-string"

\* The session cookie: a value and the key it was signed with. Flask reads
\* the value when the key is app.secret_key and an empty session otherwise.
dumps(key, value) == <<key, value>>
loads(cookie) == IF cookie[1] = secret_key THEN cookie[2] ELSE NoSession

\* The keys a browser signs a cookie with (a guess, and the literal that is
\* printed in the source) and the values it writes into it: ids of the
\* users and companies of TenantsInit, and 9, the id of no user
ClientKeys == {"guess", "change-this-to-a-long-random-string"}
CookieValues == [user_id : {1, 9}, company_id : {1, 2}]

\* A browser replaces its cookie by one it has signed itself; its next
\* request carries the session Flask reads from it.
PresentCookie(c) ==
    /\ proc = "up"
    /\ pc[c] = "idle"
    /\ \E key \in ClientKeys, value \in CookieValues :
         session' = [session EXCEPT ![c] = loads(dumps(key, value))]
    /\ UNCHANGED <<proc, companies, users, leads, jobs, invoices, tasks,
                   pc, local, now, req, resp>>

-----------------------------------------------------------------------------
(* /owner/companies *)

\* SELECT c.id, c.name, COUNT(u.id) FROM companies c LEFT JOIN users u
\* ON u.company_id = c.id GROUP BY c.id
company_user_counts ==
    [i \in DOMAIN companies |->
        [id |-> i, name |-> companies[i].name,
         user_count |-> Cardinality({u \in DOMAIN users :
                                       users[u].company_id = i})]]

owner_companies(s) ==
    LET refused == super_admin_required(s) IN
    IF refused # NoResponse THEN Result(refused, Tables)
    ELSE Result(Render("owner_companies.html", ""), Tables)

OwnerCompanies(c) ==
    LET r == owner_companies(session[c]) IN
    /\ proc = "up"
    /\ pc[c] = "idle"
    /\ Commit(r)
    /\ req' = [op |-> "owner_companies", id |-> 0]
    /\ resp' = r.resp
    /\ UNCHANGED <<proc, session, pc, local, now>>

-----------------------------------------------------------------------------
(* Tenant-scoped handlers. Each is given the session s of the browser that *)
(* sends the request. The optional free-text columns (service_type, source, *)
(* address, notes, technician, assigned_to, customer_email) and created_at  *)
(* are stored as given, are read by no handler, and are left out.           *)

LeadStatuses == {"New", "Contacted", "Scheduled", "Won", "Lost"}
JobStatuses == {"Scheduled", "In Progress", "Completed", "Canceled"}

NameInputs == {None, "Jane"}
PhoneInputs == {"", "555-1000"}
LeadStatusInputs == {None, "", " ", "Won", " Won ", "won", "Lost"}
JobStatusInputs == {None, "Completed", " Completed ", "Done"}
DateInputs == {None, "2024-05-01", "05/01/2024"}
AmountInputs == {None, "abc", "150", "-5"}
TitleInputs == {None, "Call back"}
Tokens == {"tok1", "tok2"}

\* The field values the browsers of the model send. They are what decides
\* which rows the tables come to hold; the properties of a handler are stated
\* for every value of the sets above.
LeadStatusSent == {"Won", "won"}
JobStatusSent == {"Completed", "Done"}
DateSent == {"2024-05-01"}
AmountSent == {"abc", "150", "-5"}
TokensSent == {"tok1", "tok2"}

\* The ids a request may name: those of the table's rows, and one of no row
Ids(rows) == 1..(Len(rows) + 1)

Rows == Len(leads) + Len(jobs) + Len(invoices) + Len(tasks)

\* Every date field of the model: absent, empty, blank, a date, the date
\* padded, the date without its leading zeros, another format, and a day the
\* month does not have
DateFields ==
    {None, "", " ", "2024-05-01", " 2024-05-01 ", "2024-5-1", "05/01/2024",
     "2024-02-30"}
\* The date fields the browsers send where the dates are what is looked at
DateFieldsSent == {" 2024-05-01 ", "05/01/2024"}

\* datetime.strptime(s, "%Y-%m-%d") succeeds, on the date strings of
\* DateFields: %m and %d also match one digit, and the day must exist
strptime_ok(s) == s \in {"2024-05-01", "2024-5-1"}

\* (mutant) the stripped string is returned without being parsed
parse_date_unparsed(raw) ==
    LET s == Strip(OrDefault(raw, "")) IN
    IF s = "" THEN NULL ELSE s

parse_date_yyyy_mm_dd(raw) ==
    LET s == Strip(OrDefault(raw, "")) IN
    IF s = "" THEN NULL
    ELSE IF strptime_ok(s) THEN s
    ELSE NULL

\* float(amount_raw) on the strings of AmountInputs: the number, or ValueError
float_ok(s) == s \in {"150", "-5"}
float(s) == CASE s = "150" -> 150 [] s = "-5" -> 0 - 5 [] OTHER -> 0

\* (mutant) the SELECT without its company_id condition
row_found_in_any_company(rows, id, cid) == id \in DOMAIN rows

\* SELECT ... FROM t WHERE id=? AND company_id=? finds a row
row_found(rows, id, cid) == id \in DOMAIN rows /\ rows[id].company_id = cid

\* UPDATE t SET status=? WHERE id=? AND company_id=?
update_status(rows, id, cid, status) ==
    [i \in DOMAIN rows |->
        IF i = id /\ rows[i].company_id = cid
        THEN [rows[i] EXCEPT !.status = status]
        ELSE rows[i]]

\* (mutant) the route lacks the login_required decorator
add_lead_undecorated(s, name_raw, phone_raw) ==
    LET cid == current_company_id(s)
        name == Strip(OrDefault(name_raw, ""))
        phone == Strip(OrDefault(phone_raw, ""))
        lead == [company_id |-> cid, name |-> name, phone |-> phone,
                 status |-> "New"]
    IN  IF cid = 0 THEN Result(Abort(401), Tables)
        ELSE IF name = "" \/ phone = "" THEN Result(Abort(400), Tables)
        ELSE Result(Redirect("dashboard"),
                    [Tables EXCEPT !.leads = Append(leads, lead)])

add_lead(s, name_raw, phone_raw) ==
    LET cid == current_company_id(s)
        name == Strip(OrDefault(name_raw, ""))
        phone == Strip(OrDefault(phone_raw, ""))
        lead == [company_id |-> cid, name |-> name, phone |-> phone,
                 status |-> "New"]
    IN  IF login_required(s) THEN Result(Redirect("login"), Tables)
        ELSE IF cid = 0 THEN Result(Abort(401), Tables)
        ELSE IF name = "" \/ phone = "" THEN Result(Abort(400), Tables)
        ELSE Result(Redirect("dashboard"),
                    [Tables EXCEPT !.leads = Append(leads, lead)])

\* (mutant) the submitted status is not stripped before it is tested
update_lead_status_unstripped(s, lead_id, status_raw) ==
    LET cid == current_company_id(s)
        status == OrDefault(status_raw, "New")
    IN  IF login_required(s) THEN Result(Redirect("login"), Tables)
        ELSE IF cid = 0 THEN Result(Abort(401), Tables)
        ELSE IF status \notin LeadStatuses THEN Result(Abort(400), Tables)
        ELSE IF ~row_found(leads, lead_id, cid) THEN Result(Abort(404), Tables)
        ELSE Result(Redirect("dashboard"),
                    [Tables EXCEPT
                       !.leads = update_status(leads, lead_id, cid, status)])

update_lead_status(s, lead_id, status_raw) ==
    LET cid == current_company_id(s)
        status == Strip(OrDefault(status_raw, "New"))
    IN  IF login_required(s) THEN Result(Redirect("login"), Tables)
        ELSE IF cid = 0 THEN Result(Abort(401), Tables)
        ELSE IF status \notin LeadStatuses THEN Result(Abort(400), Tables)
        ELSE IF ~row_found(leads, lead_id, cid) THEN Result(Abort(404), Tables)
        ELSE Result(Redirect("dashboard"),
                    [Tables EXCEPT
                       !.leads = update_status(leads, lead_id, cid, status)])

\* (mutant) a lead that is already Scheduled is not converted again
convert_lead_once(s, lead_id, scheduled_date_raw) ==
    LET cid == current_company_id(s)
        scheduled_date == parse_date_yyyy_mm_dd(scheduled_date_raw)
        job == [company_id |-> cid, lead_id |-> lead_id,
                customer_name |-> leads[lead_id].name, status |-> "Scheduled",
                scheduled_date |-> scheduled_date]
    IN  IF login_required(s) THEN Result(Redirect("login"), Tables)
        ELSE IF cid = 0 THEN Result(Abort(401), Tables)
        ELSE IF ~row_found(leads, lead_id, cid) THEN Result(Abort(404), Tables)
        ELSE IF leads[lead_id].status = "Scheduled"
        THEN Result(Redirect("dashboard"), Tables)
        ELSE Result(Redirect("dashboard"),
                    [Tables EXCEPT
                       !.jobs = Append(jobs, job),
                       !.leads = update_status(leads, lead_id, cid, "Scheduled")])

convert_lead(s, lead_id, scheduled_date_raw) ==
    LET cid == current_company_id(s)
        scheduled_date == parse_date_yyyy_mm_dd(scheduled_date_raw)
        job == [company_id |-> cid, lead_id |-> lead_id,
                customer_name |-> leads[lead_id].name, status |-> "Scheduled",
                scheduled_date |-> scheduled_date]
    IN  IF login_required(s) THEN Result(Redirect("login"), Tables)
        ELSE IF cid = 0 THEN Result(Abort(401), Tables)
        ELSE IF ~row_found(leads, lead_id, cid) THEN Result(Abort(404), Tables)
        ELSE Result(Redirect("dashboard"),
                    [Tables EXCEPT
                       !.jobs = Append(jobs, job),
                       !.leads = update_status(leads, lead_id, cid, "Scheduled")])

\* (mutant) the submitted status is not tested against the enumeration
update_job_status_unchecked(s, job_id, status_raw) ==
    LET cid == current_company_id(s)
        status == Strip(OrDefault(status_raw, "Scheduled"))
    IN  IF login_required(s) THEN Result(Redirect("login"), Tables)
        ELSE IF cid = 0 THEN Result(Abort(401), Tables)
        ELSE IF ~row_found(jobs, job_id, cid) THEN Result(Abort(404), Tables)
        ELSE Result(Redirect("dashboard"),
                    [Tables EXCEPT
                       !.jobs = update_status(jobs, job_id, cid, status)])

update_job_status(s, job_id, status_raw) ==
    LET cid == current_company_id(s)
        status == Strip(OrDefault(status_raw, "Scheduled"))
    IN  IF login_required(s) THEN Result(Redirect("login"), Tables)
        ELSE IF cid = 0 THEN Result(Abort(401), Tables)
        ELSE IF status \notin JobStatuses THEN Result(Abort(400), Tables)
        ELSE IF ~row_found(jobs, job_id, cid) THEN Result(Abort(404), Tables)
        ELSE Result(Redirect("dashboard"),
                    [Tables EXCEPT
                       !.jobs = update_status(jobs, job_id, cid, status)])

\* (mutant) an amount that does not parse is taken as 0
create_invoice_zero_default(s, job_id, amount_raw, due_date_raw, token) ==
    LET cid == current_company_id(s)
        amount_str == Strip(OrDefault(amount_raw, ""))
        due_date == parse_date_yyyy_mm_dd(due_date_raw)
        invoice == [company_id |-> cid, job_id |-> job_id,
                    amount |-> float(amount_str), status |-> "Unpaid",
                    due_date |-> due_date, paid_at |-> 0,
                    public_token |-> token]
    IN  IF login_required(s) THEN Result(Redirect("login"), Tables)
        ELSE IF cid = 0 THEN Result(Abort(401), Tables)
        ELSE IF ~row_found(jobs, job_id, cid) THEN Result(Abort(404), Tables)
        ELSE Result(Redirect("dashboard"),
                    [Tables EXCEPT !.invoices = Append(invoices, invoice)])

create_invoice(s, job_id, amount_raw, due_date_raw, token) ==
    LET cid == current_company_id(s)
        amount_str == Strip(OrDefault(amount_raw, ""))
        due_date == parse_date_yyyy_mm_dd(due_date_raw)
        invoice == [company_id |-> cid, job_id |-> job_id,
                    amount |-> float(amount_str), status |-> "Unpaid",
                    due_date |-> due_date, paid_at |-> 0,
                    public_token |-> token]
    IN  IF login_required(s) THEN Result(Redirect("login"), Tables)
        ELSE IF cid = 0 THEN Result(Abort(401), Tables)
        ELSE IF ~float_ok(amount_str) THEN Result(Abort(400), Tables)
        ELSE IF ~row_found(jobs, job_id, cid) THEN Result(Abort(404), Tables)
        ELSE Result(Redirect("dashboard"),
                    [Tables EXCEPT !.invoices = Append(invoices, invoice)])

\* (mutant) the UPDATE is restricted to the rows with status='Unpaid'
mark_paid_guarded(s, invoice_id) ==
    LET cid == current_company_id(s)
        paid == [i \in DOMAIN invoices |->
                    IF /\ i = invoice_id
                       /\ invoices[i].company_id = cid
                       /\ invoices[i].status = "Unpaid"
                    THEN [invoices[i] EXCEPT !.status = "Paid", !.paid_at = now]
                    ELSE invoices[i]]
    IN  IF login_required(s) THEN Result(Redirect("login"), Tables)
        ELSE IF cid = 0 THEN Result(Abort(401), Tables)
        ELSE IF ~row_found(invoices, invoice_id, cid)
        THEN Result(Abort(404), Tables)
        ELSE Result(Redirect("dashboard"), [Tables EXCEPT !.invoices = paid])

\* (mutant) the UPDATE sets the status and leaves paid_at as it is
mark_paid_unstamped(s, invoice_id) ==
    LET cid == current_company_id(s)
    IN  IF login_required(s) THEN Result(Redirect("login"), Tables)
        ELSE IF cid = 0 THEN Result(Abort(401), Tables)
        ELSE IF ~row_found(invoices, invoice_id, cid)
        THEN Result(Abort(404), Tables)
        ELSE Result(Redirect("dashboard"),
                    [Tables EXCEPT
                       !.invoices = update_status(invoices, invoice_id, cid,
                                                  "Paid")])

\* UPDATE invoices SET status='Paid', paid_at=? WHERE id=? AND company_id=?
mark_paid(s, invoice_id) ==
    LET cid == current_company_id(s)
        paid == [i \in DOMAIN invoices |->
                    IF i = invoice_id /\ invoices[i].company_id = cid
                    THEN [invoices[i] EXCEPT !.status = "Paid", !.paid_at = now]
                    ELSE invoices[i]]
    IN  IF login_required(s) THEN Result(Redirect("login"), Tables)
        ELSE IF cid = 0 THEN Result(Abort(401), Tables)
        ELSE IF ~row_found(invoices, invoice_id, cid)
        THEN Result(Abort(404), Tables)
        ELSE Result(Redirect("dashboard"), [Tables EXCEPT !.invoices = paid])

\* (mutant) the job is looked up by id alone
add_task_unscoped(s, job_id, title_raw, due_date_raw) ==
    LET cid == current_company_id(s)
        title == Strip(OrDefault(title_raw, ""))
        due_date == parse_date_yyyy_mm_dd(due_date_raw)
        task == [company_id |-> cid, job_id |-> job_id, title |-> title,
                 status |-> "todo", due_date |-> due_date]
    IN  IF login_required(s) THEN Result(Redirect("login"), Tables)
        ELSE IF cid = 0 THEN Result(Abort(401), Tables)
        ELSE IF title = "" THEN Result(Abort(400), Tables)
        ELSE IF job_id \notin DOMAIN jobs THEN Result(Abort(404), Tables)
        ELSE Result(Redirect("dashboard"),
                    [Tables EXCEPT !.tasks = Append(tasks, task)])

add_task(s, job_id, title_raw, due_date_raw) ==
    LET cid == current_company_id(s)
        title == Strip(OrDefault(title_raw, ""))
        due_date == parse_date_yyyy_mm_dd(due_date_raw)
        task == [company_id |-> cid, job_id |-> job_id, title |-> title,
                 status |-> "todo", due_date |-> due_date]
    IN  IF login_required(s) THEN Result(Redirect("login"), Tables)
        ELSE IF cid = 0 THEN Result(Abort(401), Tables)
        ELSE IF title = "" THEN Result(Abort(400), Tables)
        ELSE IF ~row_found(jobs, job_id, cid) THEN Result(Abort(404), Tables)
        ELSE Result(Redirect("dashboard"),
                    [Tables EXCEPT !.tasks = Append(tasks, task)])

\* (mutant) the new status is done whatever the task's status
toggle_task_completing(s, task_id) ==
    LET cid == current_company_id(s)
    IN  IF login_required(s) THEN Result(Redirect("login"), Tables)
        ELSE IF cid = 0 THEN Result(Abort(401), Tables)
        ELSE IF ~row_found(tasks, task_id, cid) THEN Result(Abort(404), Tables)
        ELSE Result(Redirect("dashboard"),
                    [Tables EXCEPT
                       !.tasks = update_status(tasks, task_id, cid, "done")])

\* (mutant) a task of another company is answered with 403 instead of 404
toggle_task_forbidden(s, task_id) ==
    LET cid == current_company_id(s)
        new_status == IF tasks[task_id].status # "done" THEN "done" ELSE "todo"
    IN  IF login_required(s) THEN Result(Redirect("login"), Tables)
        ELSE IF cid = 0 THEN Result(Abort(401), Tables)
        ELSE IF task_id \notin DOMAIN tasks THEN Result(Abort(404), Tables)
        ELSE IF tasks[task_id].company_id # cid THEN Result(Abort(403), Tables)
        ELSE Result(Redirect("dashboard"),
                    [Tables EXCEPT
                       !.tasks = update_status(tasks, task_id, cid, new_status)])

toggle_task(s, task_id) ==
    LET cid == current_company_id(s)
        new_status == IF tasks[task_id].status # "done" THEN "done" ELSE "todo"
    IN  IF login_required(s) THEN Result(Redirect("login"), Tables)
        ELSE IF cid = 0 THEN Result(Abort(401), Tables)
        ELSE IF ~row_found(tasks, task_id, cid) THEN Result(Abort(404), Tables)
        ELSE Result(Redirect("dashboard"),
                    [Tables EXCEPT
                       !.tasks = update_status(tasks, task_id, cid, new_status)])

\* /pay/<token>: the rows the join yields for the token, each an invoice with
\* its company's name and its job's customer name. The SELECT has LIMIT 1 and
\* no ORDER BY: fetchone returns any one of them.
public_invoice_rows(token) ==
    {[id |-> i, invoice |-> invoices[i],
      company_name |-> companies[invoices[i].company_id].name,
      customer_name |-> jobs[invoices[i].job_id].customer_name] :
        i \in {k \in DOMAIN invoices :
                  /\ invoices[k].public_token = token
                  /\ invoices[k].company_id \in DOMAIN companies
                  /\ invoices[k].job_id \in DOMAIN jobs}}

\* No session is asked for.
public_invoice(token) ==
    IF public_invoice_rows(token) = {} THEN Result(Abort(404), Tables)
    ELSE Result(Render("public_invoice.html", ""), Tables)

\* SELECT * FROM t WHERE company_id=? ORDER BY id DESC, over the rows of ids:
\* the rows with their ids, the highest id first
RECURSIVE select_desc(_, _)
select_desc(rows, ids) ==
    IF ids = {} THEN <<>>
    ELSE LET m == CHOOSE x \in ids : \A y \in ids : y <= x
         IN  <<[id |-> m, row |-> rows[m]]>> \o select_desc(rows, ids \ {m})

\* (mutant) the sum lacks the company_id condition
RECURSIVE unpaid_total_of_all(_, _)
unpaid_total_of_all(invs, cid) ==
    IF invs = <<>> THEN 0
    ELSE LET inv == invs[Len(invs)]
             rest == unpaid_total_of_all(SubSeq(invs, 1, Len(invs) - 1), cid)
         IN  IF inv.status = "Unpaid" THEN rest + inv.amount ELSE rest

\* SELECT COALESCE(SUM(amount), 0) FROM invoices
\* WHERE company_id=? AND status='Unpaid', over the rows invs
RECURSIVE unpaid_total(_, _)
unpaid_total(invs, cid) ==
    IF invs = <<>> THEN 0
    ELSE LET inv == invs[Len(invs)]
             rest == unpaid_total(SubSeq(invs, 1, Len(invs) - 1), cid)
         IN  IF inv.company_id = cid /\ inv.status = "Unpaid"
             THEN rest + inv.amount
             ELSE rest

\* The values dashboard hands to its template for company cid, read from the
\* tables T. The three that compare with today's date (overdue_invoices,
\* jobs_today, leads_today) are selections of the same rows of cid and are
\* left out.
dashboard_page(T, cid) ==
    LET own(rows) == {i \in DOMAIN rows : rows[i].company_id = cid} IN
    [company_name |-> IF cid \in DOMAIN T.companies
                      THEN T.companies[cid].name ELSE "Company",
     leads |-> select_desc(T.leads, own(T.leads)),
     jobs |-> select_desc(T.jobs, own(T.jobs)),
     tasks |-> select_desc(T.tasks, own(T.tasks)),
     invoices |-> select_desc(T.invoices, own(T.invoices)),
     missed_leads |-> select_desc(T.leads,
                         {i \in own(T.leads) : T.leads[i].status = "New"}),
     unpaid_total |-> unpaid_total(T.invoices, cid)]

\* The dashboard reads only; its page is computed from the rows of cid.
dashboard(s) ==
    LET cid == current_company_id(s)
    IN  IF login_required(s) THEN Result(Redirect("login"), Tables)
        ELSE IF cid = 0 THEN Result(Abort(401), Tables)
        ELSE Result(Render("dashboard.html", ""), Tables)

\* A tenant-scoped request of browser c is answered with result r.
Answer(c, op, id, r) ==
    /\ proc = "up"
    /\ pc[c] = "idle"
    /\ Commit(r)
    /\ req' = [op |-> op, id |-> id]
    /\ resp' = r.resp
    /\ UNCHANGED <<proc, session, pc, local, now>>

Dashboard(c) == Answer(c, "dashboard", 0, dashboard(session[c]))

AddLead(c) ==
    \E name \in NameInputs, phone \in PhoneInputs :
       Answer(c, "add_lead", 0, add_lead(session[c], name, phone))

UpdateLeadStatus(c) ==
    \E lead_id \in Ids(leads), status \in LeadStatusSent :
       Answer(c, "update_lead_status", lead_id,
              update_lead_status(session[c], lead_id, status))

ConvertLead(c) ==
    \E lead_id \in Ids(leads), d \in DateSent :
       Answer(c, "convert_lead", lead_id,
              convert_lead(session[c], lead_id, d))

UpdateJobStatus(c) ==
    \E job_id \in Ids(jobs), status \in JobStatusSent :
       Answer(c, "update_job_status", job_id,
              update_job_status(session[c], job_id, status))

\* The string secrets.token_urlsafe returns is the token of an earlier invoice
\* or of none; the first one drawn is called tok1.
token_urlsafe == IF invoices = <<>> THEN {"tok1"} ELSE TokensSent

CreateInvoice(c) ==
    \E job_id \in Ids(jobs), amount \in AmountSent,
       d \in DateSent, token \in token_urlsafe :
       Answer(c, "create_invoice", job_id,
              create_invoice(session[c], job_id, amount, d, token))

MarkPaid(c) ==
    \E invoice_id \in Ids(invoices) :
       Answer(c, "mark_paid", invoice_id, mark_paid(session[c], invoice_id))

AddTask(c) ==
    \E job_id \in Ids(jobs), title \in TitleInputs,
       d \in DateSent :
       Answer(c, "add_task", job_id,
              add_task(session[c], job_id, title, d))

ToggleTask(c) ==
    \E task_id \in Ids(tasks) :
       Answer(c, "toggle_task", task_id, toggle_task(session[c], task_id))

\* The three requests that carry a date, with the date fields of
\* DateFieldsSent and an otherwise valid form
ConvertLeadDated(c) ==
    \E lead_id \in Ids(leads), d \in DateFieldsSent :
       Answer(c, "convert_lead", lead_id,
              convert_lead(session[c], lead_id, d))

CreateInvoiceDated(c) ==
    \E job_id \in Ids(jobs), d \in DateFieldsSent, token \in token_urlsafe :
       Answer(c, "create_invoice", job_id,
              create_invoice(session[c], job_id, "150", d, token))

AddTaskDated(c) ==
    \E job_id \in Ids(jobs), d \in DateFieldsSent :
       Answer(c, "add_task", job_id,
              add_task(session[c], job_id, "Call back", d))

\* /pay/<token> is asked for; req.id is the id of the invoice shown, 0 if none
PublicInvoice(c) ==
    \E token \in Tokens :
       LET r == public_invoice(token)
           rows == public_invoice_rows(token)
       IN  /\ proc = "up"
           /\ pc[c] = "idle"
           /\ Commit(r)
           /\ \E shown \in IF rows = {} THEN {0} ELSE {row.id : row \in rows} :
                 req' = [op |-> "public_invoice", id |-> shown]
           /\ resp' = r.resp
           /\ UNCHANGED <<proc, session, pc, local, now>>

\* The wall clock that datetime.now() reads advances.
Tick ==
    /\ now < MaxTime
    /\ now' = now + 1
    /\ UNCHANGED <<proc, companies, users, leads, jobs, invoices, tasks,
                   session, pc, local, req, resp>>

-----------------------------------------------------------------------------

Init ==
    /\ proc = "down"
    /\ companies = <<>>
    /\ users = <<>>
    /\ leads = <<>>
    /\ jobs = <<>>
    /\ invoices = <<>>
    /\ tasks = <<>>
    /\ session = [c \in Clients |-> NoSession]
    /\ pc = [c \in Clients |-> "idle"]
    /\ local = [c \in Clients |-> NoLocal]
    /\ now = 1
    /\ req = NoRequest
    /\ resp = NoResponse

\* Two companies exist after a first successful start and one signup: the
\* owner company, whose user is the super admin, and the company alice signed
\* up for. Each of the two users can hold a session of her company.
TenantsInit ==
    /\ proc = "up"
    /\ companies = <<[name |-> OwnerCompanyName], [name |-> "Acme"]>>
    /\ users = <<[company_id |-> 1, username |-> OwnerUsername,
                  password_hash |-> generate_password_hash("s3cret"),
                  role |-> "super_admin"],
                 [company_id |-> 2, username |-> "alice",
                  password_hash |-> generate_password_hash("pw1"),
                  role |-> "admin"]>>
    /\ leads = <<>>
    /\ jobs = <<>>
    /\ invoices = <<>>
    /\ tasks = <<>>
    /\ session = [c \in Clients |-> NoSession]
    /\ pc = [c \in Clients |-> "idle"]
    /\ local = [c \in Clients |-> NoLocal]
    /\ now = 1
    /\ req = NoRequest
    /\ resp = NoResponse

\* Both companies have used the tracker: in each, the user has added the lead
\* Jane and converted it to a job scheduled for 2024-05-01.
InvoicesInit ==
    /\ proc = "up"
    /\ companies = <<[name |-> OwnerCompanyName], [name |-> "Acme"]>>
    /\ users = <<[company_id |-> 1, username |-> OwnerUsername,
                  password_hash |-> generate_password_hash("s3cret"),
                  role |-> "super_admin"],
                 [company_id |-> 2, username |-> "alice",
                  password_hash |-> generate_password_hash("pw1"),
                  role |-> "admin"]>>
    /\ leads = <<[company_id |-> 2, name |-> "Jane", phone |-> "555-1000",
                  status |-> "Scheduled"],
                 [company_id |-> 1, name |-> "Jane", phone |-> "555-1000",
                  status |-> "Scheduled"]>>
    /\ jobs = <<[company_id |-> 2, lead_id |-> 1, customer_name |-> "Jane",
                 status |-> "Scheduled", scheduled_date |-> "2024-05-01"],
                [company_id |-> 1, lead_id |-> 2, customer_name |-> "Jane",
                 status |-> "Scheduled", scheduled_date |-> "2024-05-01"]>>
    /\ invoices = <<>>
    /\ tasks = <<>>
    /\ session = [c \in Clients |-> NoSession]
    /\ pc = [c \in Clients |-> "idle"]
    /\ local = [c \in Clients |-> NoLocal]
    /\ now = 1
    /\ req = NoRequest
    /\ resp = NoResponse

\* Each company has then created an invoice of 150 and a task for its job.
PaymentsInit ==
    /\ proc = "up"
    /\ companies = <<[name |-> OwnerCompanyName], [name |-> "Acme"]>>
    /\ users = <<[company_id |-> 1, username |-> OwnerUsername,
                  password_hash |-> generate_password_hash("s3cret"),
                  role |-> "super_admin"],
                 [company_id |-> 2, username |-> "alice",
                  password_hash |-> generate_password_hash("pw1"),
                  role |-> "admin"]>>
    /\ leads = <<[company_id |-> 2, name |-> "Jane", phone |-> "555-1000",
                  status |-> "Scheduled"],
                 [company_id |-> 1, name |-> "Jane", phone |-> "555-1000",
                  status |-> "Scheduled"]>>
    /\ jobs = <<[company_id |-> 2, lead_id |-> 1, customer_name |-> "Jane",
                 status |-> "Scheduled", scheduled_date |-> "2024-05-01"],
                [company_id |-> 1, lead_id |-> 2, customer_name |-> "Jane",
                 status |-> "Scheduled", scheduled_date |-> "2024-05-01"]>>
    /\ invoices = <<[company_id |-> 2, job_id |-> 1, amount |-> 150,
                     status |-> "Unpaid", due_date |-> "2024-05-01",
                     paid_at |-> 0, public_token |-> "tok1"],
                    [company_id |-> 1, job_id |-> 2, amount |-> 150,
                     status |-> "Unpaid", due_date |-> "2024-05-01",
                     paid_at |-> 0, public_token |-> "tok2"]>>
    /\ tasks = <<[company_id |-> 2, job_id |-> 1, title |-> "Call back",
                  status |-> "todo", due_date |-> "2024-05-01"],
                 [company_id |-> 1, job_id |-> 2, title |-> "Call back",
                  status |-> "todo", due_date |-> "2024-05-01"]>>
    /\ session = [c \in Clients |-> NoSession]
    /\ pc = [c \in Clients |-> "idle"]
    /\ local = [c \in Clients |-> NoLocal]
    /\ now = 1
    /\ req = NoRequest
    /\ resp = NoResponse

\* Process start and stop, and the account requests of every browser
AccountNext ==
    \/ Start
    \/ Stop
    \/ \E c \in Clients :
         \/ Setup(c)
         \/ SignupBegin(c)
         \/ SignupCreateCompany(c)
         \/ SignupCreateUser(c)
         \/ Login(c)
         \/ Logout(c)
         \/ OwnerCompanies(c)

\* The tenant-scoped requests of browser c, which logs in and out as any user.
\* The requests that insert a row are sent while the tables have room.
TenantRequests(c) ==
    \/ Login(c)
    \/ Logout(c)
    \/ Dashboard(c)
    \/ Rows < MaxRows /\ AddLead(c)
    \/ UpdateLeadStatus(c)
    \/ Rows < MaxRows /\ ConvertLead(c)
    \/ UpdateJobStatus(c)
    \/ Rows < MaxRows /\ CreateInvoice(c)
    \/ MarkPaid(c)
    \/ Rows < MaxRows /\ AddTask(c)
    \/ ToggleTask(c)

TenantNext == TenantRequests("c1")

\* The requests about invoices, of a browser that logs in and out as any user
\* and of anyone who holds a payment link
InvoiceRequests(c) ==
    \/ Login(c)
    \/ Logout(c)
    \/ Dashboard(c)
    \/ Len(invoices) < MaxInvoices /\ CreateInvoice(c)
    \/ MarkPaid(c)
    \/ PublicInvoice(c)

InvoiceNext == InvoiceRequests("c1")

\* Payments as time passes, and the dashboard that shows what is unpaid
PaymentNext ==
    \/ Login("c1")
    \/ Logout("c1")
    \/ Dashboard("c1")
    \/ MarkPaid("c1")
    \/ Tick

\* The requests that carry a date, of a browser that logs in and out as any
\* user, until MaxInvoices rows have been added
DatedRows == Len(jobs) + Len(invoices) + Len(tasks)

DatedRequests(c) ==
    \/ Login(c)
    \/ Logout(c)
    \/ DatedRows < 2 + MaxInvoices /\ ConvertLeadDated(c)
    \/ DatedRows < 2 + MaxInvoices /\ CreateInvoiceDated(c)
    \/ DatedRows < 2 + MaxInvoices /\ AddTaskDated(c)

DatesNext == DatedRequests("c1")

\* The requests of a browser that logs in and out and signs cookies itself
SessionNext ==
    \/ Login("c1")
    \/ Logout("c1")
    \/ PresentCookie("c1")
    \/ Dashboard("c1")
    \/ Rows < MaxRows /\ AddLead("c1")

Next ==
    \/ AccountNext
    \/ \E c \in Clients : PresentCookie(c)
    \/ \E c \in Clients : TenantRequests(c) \/ PublicInvoice(c)
    \/ \E c \in Clients :
         Rows < MaxRows
         /\ (ConvertLeadDated(c) \/ CreateInvoiceDated(c) \/ AddTaskDated(c))
    \/ Tick

\* The whole system, from an empty database
Spec == Init /\ [][Next]_vars

\* The account life cycle alone, from an empty database
SpecAccounts == Init /\ [][AccountNext]_vars

\* The tenants' requests alone, once two companies exist: the handlers are
\* atomic and read the browser's session only, so one browser that logs in
\* and out as every user sends every request two browsers could.
SpecTenants == TenantsInit /\ [][TenantNext]_vars

\* The invoices of two companies that each have a lead and a job
SpecInvoices == InvoicesInit /\ [][InvoiceNext]_vars

\* The payments of two invoices on a clock that advances
SpecPayments == PaymentsInit /\ [][PaymentNext]_vars

\* The dates of the jobs, invoices and tasks two companies add, each of which
\* starts with a lead and a job
SpecDates == InvoicesInit /\ [][DatesNext]_vars

\* The sessions of a browser that holds the cookies it was given or signs
\* its own, once two companies exist
SpecSessions == TenantsInit /\ [][SessionNext]_vars

-----------------------------------------------------------------------------
(* Properties of the tenant-scoped handlers, checked under SpecTenants.    *)
(* They are stated, in every reachable state, of the result of every       *)
(* request a browser can send next: for the session it holds, every target *)
(* id and every form.                                                       *)

\* The sessions login and signup set: a user's id with that user's company
ValidSessions ==
    {[user_id |-> i, company_id |-> users[i].company_id] : i \in DOMAIN users}

\* The sessions the browsers hold, and those of them that carry both ids
HeldSessions == {session[c] : c \in Clients}
LoggedIn == HeldSessions \cap ValidSessions

\* The ids of the rows of another company than cid, and the ids of cid's rows
ForeignIds(rows, cid) == {i \in DOMAIN rows : rows[i].company_id # cid}
OwnIds(rows, cid) == {i \in DOMAIN rows : rows[i].company_id = cid}
\* Ids that no row of the table has
AbsentIds(rows) == {0, Len(rows) + 1}

NotFound(r) == r.resp = Abort(404) /\ r.db = Tables
Rejected(r) == r.resp = Abort(400) /\ r.db = Tables

NotFoundOrRejected(r) == NotFound(r) \/ Rejected(r)

\* P holds of the result of every mutation endpoint, for session s, every
\* target that is a row of another company, and every form
ForeignTargets(s, P(_)) ==
    LET cid == s.company_id IN
    /\ \A i \in ForeignIds(leads, cid) :
         /\ \A st \in LeadStatusInputs : P(update_lead_status(s, i, st))
         /\ \A d \in DateInputs : P(convert_lead(s, i, d))
    /\ \A i \in ForeignIds(jobs, cid) :
         /\ \A st \in JobStatusInputs : P(update_job_status(s, i, st))
         /\ \A a \in AmountInputs, d \in DateInputs, t \in Tokens :
              P(create_invoice(s, i, a, d, t))
         /\ \A ti \in TitleInputs, d \in DateInputs : P(add_task(s, i, ti, d))
    /\ \A i \in ForeignIds(invoices, cid) : P(mark_paid(s, i))
    /\ \A i \in ForeignIds(tasks, cid) : P(toggle_task(s, i))

\* C1 as stated: a mutation request from a valid session whose target belongs
\* to another company always ends as not-found (404) and changes no row.
C1_AlwaysNotFound == \A s \in LoggedIn : ForeignTargets(s, NotFound)

\* C1 as amended: such a request never changes a row; it ends as not-found,
\* except that update_lead_status, update_job_status, create_invoice and
\* add_task validate their form before they look the target up, and end with
\* 400 when the status, amount or title is invalid. With a valid form (a status
\* of the enumeration, a numeric amount, a non-empty title) they end as
\* not-found; convert_lead, mark_paid and toggle_task always do.
C1_ForeignTargetNeverMutable ==
    \A s \in LoggedIn :
       LET cid == s.company_id
           \* not-found when the form is valid, not-found or 400 otherwise
           Refused(valid, r) == IF valid THEN NotFound(r) ELSE NotFoundOrRejected(r)
       IN
       /\ \A i \in ForeignIds(leads, cid) :
            /\ \A d \in DateInputs : NotFound(convert_lead(s, i, d))
            /\ \A st \in LeadStatusInputs \cup LeadStatuses :
                 Refused(st \in LeadStatuses, update_lead_status(s, i, st))
       /\ \A i \in ForeignIds(jobs, cid) :
            /\ \A st \in JobStatusInputs \cup JobStatuses :
                 Refused(st \in JobStatuses, update_job_status(s, i, st))
            /\ \A a \in AmountInputs, d \in DateInputs, t \in Tokens :
                 Refused(a \in {"150", "-5"}, create_invoice(s, i, a, d, t))
            /\ \A ti \in TitleInputs, d \in DateInputs :
                 Refused(ti = "Call back", add_task(s, i, ti, d))
       /\ \A i \in ForeignIds(invoices, cid) : NotFound(mark_paid(s, i))
       /\ \A i \in ForeignIds(tasks, cid) : NotFound(toggle_task(s, i))

\* A browser logged in to one company has just asked for a status update of
\* another company's lead with an invalid status, and got 400.
C1_Witness ==
    /\ session["c1"] \in LoggedIn
    /\ req.op = "update_lead_status"
    /\ req.id \in ForeignIds(leads, session["c1"].company_id)
    /\ resp = Abort(400)

\* C2: for every tenant-scoped endpoint that names a target and every form,
\* the result (response and tables) for a target of another company equals
\* the result for an id that no row has.
C2_ForeignAsAbsent ==
    \A s \in LoggedIn :
       LET cid == s.company_id IN
       /\ \A a \in AbsentIds(leads) :
            /\ \A st \in LeadStatusInputs :
                 LET ra == update_lead_status(s, a, st) IN
                 \A i \in ForeignIds(leads, cid) : update_lead_status(s, i, st) = ra
            /\ \A d \in DateInputs :
                 LET ra == convert_lead(s, a, d) IN
                 \A i \in ForeignIds(leads, cid) : convert_lead(s, i, d) = ra
       /\ \A a \in AbsentIds(jobs) :
            /\ \A st \in JobStatusInputs :
                 LET ra == update_job_status(s, a, st) IN
                 \A i \in ForeignIds(jobs, cid) : update_job_status(s, i, st) = ra
            /\ \A am \in AmountInputs, d \in DateInputs, t \in Tokens :
                 LET ra == create_invoice(s, a, am, d, t) IN
                 \A i \in ForeignIds(jobs, cid) :
                    create_invoice(s, i, am, d, t) = ra
            /\ \A ti \in TitleInputs, d \in DateInputs :
                 LET ra == add_task(s, a, ti, d) IN
                 \A i \in ForeignIds(jobs, cid) : add_task(s, i, ti, d) = ra
       /\ \A a \in AbsentIds(invoices), i \in ForeignIds(invoices, cid) :
            mark_paid(s, i) = mark_paid(s, a)
       /\ \A a \in AbsentIds(tasks), i \in ForeignIds(tasks, cid) :
            toggle_task(s, i) = toggle_task(s, a)

\* A logged-in browser has just asked to toggle the task of another company
\* and got the answer a missing task gets.
C2_Witness ==
    /\ session["c1"] \in LoggedIn
    /\ req.op = "toggle_task"
    /\ req.id \in ForeignIds(tasks, session["c1"].company_id)
    /\ resp = Abort(404)
    /\ toggle_task(session["c1"], req.id).resp
         = toggle_task(session["c1"], Len(tasks) + 1).resp

\* C3: every stored status is a value of its enumeration.
C3_StatusesAllowListed ==
    /\ \A i \in DOMAIN leads : leads[i].status \in LeadStatuses
    /\ \A i \in DOMAIN jobs : jobs[i].status \in JobStatuses
    /\ \A i \in DOMAIN invoices : invoices[i].status \in {"Unpaid", "Paid"}
    /\ \A i \in DOMAIN tasks : tasks[i].status \in {"todo", "done"}

\* A job status outside the enumeration has just been refused, after statuses
\* of a lead and of a job were updated.
C3_Witness ==
    /\ req.op = "update_job_status"
    /\ resp = Abort(400)
    /\ \E i \in DOMAIN leads : leads[i].status = "Won"
    /\ \E i \in DOMAIN jobs : jobs[i].status = "Completed"

\* C4 as stated: on a lead of the caller's company update_lead_status stores
\* the submitted value when it is one of the five statuses, and refuses every
\* other submitted value with 400, leaving the tables as they are.
C4_OnlyExactValues ==
    \A s \in LoggedIn : \A i \in OwnIds(leads, s.company_id) :
       \A st \in LeadStatusInputs :
          LET r == update_lead_status(s, i, st) IN
          IF st \in LeadStatuses
          THEN r.resp = Redirect("dashboard") /\ r.db.leads[i].status = st
          ELSE Rejected(r)

\* C4 as amended: the value that is tested and stored is the submitted one
\* with surrounding whitespace removed, and New when the field is absent or
\* empty. A value of the enumeration is stored as it is, a padded one without
\* its padding, an absent or empty one as New; any other value (blank, wrong
\* case) is refused with 400 and the tables stay as they are. The request
\* changes nothing but that lead's status.
C4_LeadStatusAfterTrimAndDefault ==
    \A s \in LoggedIn : \A i \in OwnIds(leads, s.company_id) :
       LET Stored(st, v) ==
              LET r == update_lead_status(s, i, st) IN
              /\ r.resp = Redirect("dashboard")
              /\ r.db = [Tables EXCEPT !.leads[i].status = v]
       IN  /\ \A st \in LeadStatuses : Stored(st, st)
           /\ Stored(" Won ", "Won")
           /\ Stored(None, "New")
           /\ Stored("", "New")
           /\ \A st \in {" ", "won", "Bogus"} :
                Rejected(update_lead_status(s, i, st))

\* A logged-in browser has just had an invalid status for a lead of its own
\* company refused, and the lead still has the status it was given before.
C4_Witness ==
    /\ session["c1"] \in LoggedIn
    /\ req.op = "update_lead_status"
    /\ req.id \in OwnIds(leads, session["c1"].company_id)
    /\ resp = Abort(400)
    /\ leads[req.id].status = "Won"

\* The sessions held that lack the user id, the company id or both
Incomplete == {s \in HeldSessions : s.user_id = 0 \/ s.company_id = 0}

\* The results of the dashboard and of the mutation endpoints for session s,
\* for every target id and every form
TenantResults(s) ==
    {dashboard(s)}
    \cup {add_lead(s, n, ph) : n \in NameInputs, ph \in PhoneInputs}
    \cup UNION {{update_lead_status(s, i, st) : st \in LeadStatusInputs}
                \cup {convert_lead(s, i, d) : d \in DateInputs} :
                i \in 0..(Len(leads) + 1)}
    \cup UNION {{update_job_status(s, i, st) : st \in JobStatusInputs}
                \cup {create_invoice(s, i, f.a, f.d, f.t) :
                        f \in [a : AmountInputs, d : DateInputs, t : Tokens]}
                \cup {add_task(s, i, f.ti, f.d) :
                        f \in [ti : TitleInputs, d : DateInputs]} :
                i \in 0..(Len(jobs) + 1)}
    \cup {mark_paid(s, i) : i \in 0..(Len(invoices) + 1)}
    \cup {toggle_task(s, i) : i \in 0..(Len(tasks) + 1)}

SentToLogin(r) == r.resp = Redirect("login") /\ r.db = Tables

\* C5: a request to the dashboard or to a mutation endpoint whose session
\* lacks the user id or the company id is answered by login_required with the
\* redirect to /login (so current_company_id's 401 is never reached): it is
\* given no page and the tables stay as they are.
C5_NoSessionNoAccess ==
    \A s \in Incomplete : \A r \in TenantResults(s) : SentToLogin(r)

\* A browser without a session has just asked to add a lead to tables that
\* hold rows, and was sent to /login.
C5_Witness ==
    /\ session["c1"] = NoSession
    /\ req.op = "add_lead"
    /\ resp = Redirect("login")
    /\ Len(leads) > 0

-----------------------------------------------------------------------------
(* Properties of the account life cycle, checked under SpecAccounts *)

SuperAdmins == {i \in DOMAIN users : users[i].role = "super_admin"}
HasUser(company_id) == \E i \in DOMAIN users : users[i].company_id = company_id

\* C6: signup is atomic. When a signup request ends, however it ends, the
\* company row it inserted (if it inserted one) has its admin user row.
C6_SignupAtomic ==
    [][\A c \in Clients :
          (pc[c] # "idle" /\ pc'[c] = "idle" /\ local[c].company_id # 0)
          => \E i \in DOMAIN users' : users'[i].company_id = local[c].company_id
      ]_vars

\* Every form a signup POST can carry, the reserved name as it is included
SignupPosts ==
    [method : {"POST"}, company_name : CompanyNameInputs,
     username : UsernameInputs \cup {OwnerUsername}, password : PasswordInputs]

\* C7: no two user rows have the same username; and a signup POST whose
\* username, as submitted or without its padding, is that of a user row when
\* the request is checked, or is the owner's in any case of letters, is
\* answered with the signup page and a message and writes no row.
C7_UsernamesUnique ==
    /\ \A i, j \in DOMAIN users :
          users[i].username = users[j].username => i = j
    /\ \A f \in SignupPosts :
          LET r == signup_check(f.method, f.company_name, f.username, f.password)
              taken == \E i \in DOMAIN users :
                          users[i].username \in {f.username, Strip(f.username)}
              reserved == f.username \in {OwnerUsername, "Aptech_Owner"}
          IN  (taken \/ reserved)
              => /\ r.resp.status = 200
                 /\ r.resp.target = "signup.html"
                 /\ r.resp.error # ""
                 /\ r.db = Tables

\* A signup has just been refused because its username is taken.
C7_Witness ==
    /\ req.op = "signup"
    /\ resp = Render("signup.html", "That username is already taken. Try another.")
    /\ Len(users) >= 2

\* C8: once a start has succeeded there is exactly one super_admin row, and
\* ensure_super_admin, run again with any configured password, raises nothing
\* and leaves every table as it is.
C8_OneSuperAdmin ==
    (proc = "up" \/ SuperAdmins # {})
    => /\ Cardinality(SuperAdmins) = 1
       /\ \A password \in EnvPasswords :
             LET r == ensure_super_admin(password) IN
             r.raised = "" /\ r.db = Tables

\* The process has just been started again after a tenant had signed up.
C8_Witness ==
    /\ req.op = "startup"
    /\ proc = "up"
    /\ Len(users) >= 2
    /\ Len(companies) >= 2

\* C9: a start that fails for want of a password creates no super_admin and
\* leaves no company without a user.
C9_FailedStartLeavesNothing ==
    (proc = "failed" /\ resp.error = "RuntimeError")
    => /\ SuperAdmins = {}
       /\ \A i \in DOMAIN companies : HasUser(i)

\* C10: once a user row exists, /setup answers every request, GET or POST
\* with any form, with the redirect to /login and leaves every table as it
\* is; and no step removes or changes a user row, so this lasts.
C10_SetupClosed ==
    /\ [](Len(users) >= 1
          => \A f \in AccountForms :
                setup(f.method, f.company_name, f.username, f.password)
                  = Result(Redirect("login"), Tables))
    /\ [][SubSeq(users', 1, Len(users)) = users]_vars

\* /setup has just been asked for while users exist, and sent to /login.
C10_Witness ==
    /\ req.op = "setup"
    /\ resp = Redirect("login")
    /\ Len(users) >= 1
    /\ Len(companies) >= 2

-----------------------------------------------------------------------------
(* Further properties of the tenant-scoped handlers, checked under         *)
(* SpecTenants. Where a property is about a request sent twice, the second *)
(* request is the handler's result in the state the first one leaves.      *)

\* The jobs of table js that reference the lead
JobsOfLead(js, lead_id) == {j \in DOMAIN js : js[j].lead_id = lead_id}

\* C12: convert_lead on a lead of the caller's company, whatever the lead's
\* status and whatever the date field, appends one job with status Scheduled
\* that references the lead and copies its name, sets the lead's status to
\* Scheduled and changes nothing else; and once a lead has been converted, the
\* same request again adds a second job for it and leaves it Scheduled.
C12_ConvertLeadAlwaysAddsJob ==
    /\ [](\A s \in LoggedIn : \A i \in OwnIds(leads, s.company_id) :
            \A d \in DateInputs :
               convert_lead(s, i, d)
                 = Result(Redirect("dashboard"),
                          [Tables EXCEPT
                             !.jobs = Append(jobs,
                                 [company_id |-> s.company_id, lead_id |-> i,
                                  customer_name |-> leads[i].name,
                                  status |-> "Scheduled",
                                  scheduled_date |->
                                     IF d = "2024-05-01" THEN d ELSE NULL]),
                             !.leads[i].status = "Scheduled"]))
    /\ [][\A i \in DOMAIN leads : \A c \in Clients : \A d \in DateInputs :
             (/\ req'.op = "convert_lead"
              /\ req'.id = i
              /\ jobs' # jobs
              /\ session[c].company_id = leads[i].company_id)
             => LET again == (convert_lead(session[c], i, d))' IN
                /\ leads'[i].status = "Scheduled"
                /\ Cardinality(JobsOfLead(jobs', i))
                      = Cardinality(JobsOfLead(jobs, i)) + 1
                /\ again.resp = Redirect("dashboard")
                /\ again.db.leads[i].status = "Scheduled"
                /\ Cardinality(JobsOfLead(again.db.jobs, i))
                      = Cardinality(JobsOfLead(jobs, i)) + 2
                /\ Len(again.db.jobs) = Len(jobs) + 2]_vars

\* A lead has just been converted for the second time: two jobs reference it
\* and it is Scheduled.
C12_Witness ==
    /\ req.op = "convert_lead"
    /\ resp = Redirect("dashboard")
    /\ req.id \in DOMAIN leads
    /\ Cardinality(JobsOfLead(jobs, req.id)) = 2
    /\ leads[req.id].status = "Scheduled"

\* C14: toggle_task on a task of the caller's company turns todo into done
\* and done into todo and changes nothing else; and once a task has been
\* toggled, the same request again leaves every table as it was before the
\* first of the two.
C14_ToggleTwiceRestores ==
    /\ [](\A s \in LoggedIn : \A i \in OwnIds(tasks, s.company_id) :
            toggle_task(s, i)
              = Result(Redirect("dashboard"),
                       [Tables EXCEPT
                          !.tasks[i].status =
                             IF tasks[i].status = "todo" THEN "done"
                             ELSE "todo"]))
    /\ [][\A i \in DOMAIN tasks : \A c \in Clients :
             (/\ req'.op = "toggle_task"
              /\ req'.id = i
              /\ tasks' # tasks
              /\ session[c].company_id = tasks[i].company_id)
             => (toggle_task(session[c], i))'
                   = Result(Redirect("dashboard"), Tables)]_vars

\* A task, created todo, has just been toggled and is todo: it was toggled
\* twice.
C14_Witness ==
    /\ req.op = "toggle_task"
    /\ resp = Redirect("dashboard")
    /\ req.id \in DOMAIN tasks
    /\ tasks[req.id].status = "todo"

\* C17: every job whose lead_id is set references a lead of the job's company,
\* and every invoice and every task references a job of its own company.
C17_ChildrenShareTenant ==
    /\ \A j \in DOMAIN jobs :
          jobs[j].lead_id # 0
          => /\ jobs[j].lead_id \in DOMAIN leads
             /\ leads[jobs[j].lead_id].company_id = jobs[j].company_id
    /\ \A i \in DOMAIN invoices :
          /\ invoices[i].job_id \in DOMAIN jobs
          /\ jobs[invoices[i].job_id].company_id = invoices[i].company_id
    /\ \A t \in DOMAIN tasks :
          /\ tasks[t].job_id \in DOMAIN jobs
          /\ jobs[tasks[t].job_id].company_id = tasks[t].company_id

\* A task has just been added to a job that was converted from a lead.
C17_Witness ==
    /\ req.op = "add_task"
    /\ resp = Redirect("dashboard")
    /\ Len(tasks) >= 1
    /\ jobs[tasks[1].job_id].lead_id \in DOMAIN leads

-----------------------------------------------------------------------------
(* Properties of the invoices, checked under SpecInvoices *)

\* The invoices that hold the token
Holders(token) == {i \in DOMAIN invoices : invoices[i].public_token = token}

C16_AmountsNonNegative ==
    \A i \in DOMAIN invoices : invoices[i].amount >= 0

\* C20: an invoice is inserted Unpaid with a null paid_at; in every state an
\* invoice's paid_at is set exactly when its status is Paid; and no step
\* takes an invoice from Paid to another status.
C20_PaidIsAbsorbing ==
    /\ [](\A i \in DOMAIN invoices :
            /\ invoices[i].status \in {"Unpaid", "Paid"}
            /\ invoices[i].paid_at # 0 <=> invoices[i].status = "Paid")
    /\ [][/\ \A i \in DOMAIN invoices :
               invoices[i].status = "Paid"
               => i \in DOMAIN invoices' /\ invoices'[i].status = "Paid"
          /\ \A i \in DOMAIN invoices' \ DOMAIN invoices :
               invoices'[i].status = "Unpaid" /\ invoices'[i].paid_at = 0
         ]_vars

\* An invoice has just been marked Paid while another one is Unpaid.
C20_Witness ==
    /\ req.op = "mark_paid"
    /\ resp = Redirect("dashboard")
    /\ \E i \in DOMAIN invoices : invoices[i].status = "Paid"
    /\ \E i \in DOMAIN invoices : invoices[i].status = "Unpaid"

-----------------------------------------------------------------------------
(* Properties of the payments and of the dashboard, checked under
   SpecPayments *)

\* C13: mark_paid on an invoice of the caller's company, Unpaid or Paid,
\* succeeds, sets the status to Paid and paid_at to the time of the call and
\* changes nothing else; a call on an invoice that is already Paid changes
\* its paid_at to the time of that call and nothing else.
C13_MarkPaidRestamps ==
    /\ [](\A s \in LoggedIn : \A i \in OwnIds(invoices, s.company_id) :
            mark_paid(s, i)
              = Result(Redirect("dashboard"),
                       [Tables EXCEPT !.invoices[i].status = "Paid",
                                      !.invoices[i].paid_at = now]))
    /\ [][\A i \in DOMAIN invoices :
             (/\ req'.op = "mark_paid"
              /\ req'.id = i
              /\ resp' = Redirect("dashboard")
              /\ now' = now
              /\ invoices[i].status = "Paid")
             => /\ invoices' = [invoices EXCEPT ![i].paid_at = now]
                /\ <<companies, users, leads, jobs, tasks>>'
                     = <<companies, users, leads, jobs, tasks>>]_vars

\* An invoice was marked Paid, time has passed, and it has just been marked
\* Paid again: its paid_at is the later time, the other invoice's the earlier.
C13_Witness ==
    /\ req.op = "mark_paid"
    /\ resp = Redirect("dashboard")
    /\ req.id \in DOMAIN invoices
    /\ invoices[req.id].paid_at = now
    /\ now > 1
    /\ \E i \in DOMAIN invoices :
          invoices[i].status = "Paid" /\ invoices[i].paid_at < now

\* The list holds exactly the rows of the ids, each once, as they are in rows
Lists(list, rows, ids) ==
    /\ Len(list) = Cardinality(ids)
    /\ {list[k].id : k \in DOMAIN list} = ids
    /\ \A k \in DOMAIN list : list[k].row = rows[list[k].id]

\* The sum of the amounts of the invoices of the ids
RECURSIVE SumAmounts(_)
SumAmounts(ids) ==
    IF ids = {} THEN 0
    ELSE LET i == CHOOSE x \in ids : TRUE
         IN  invoices[i].amount + SumAmounts(ids \ {i})

\* C15: the dashboard of a valid session of company A is rendered from A's
\* rows: its lead, job, task and invoice lists hold exactly the rows whose
\* company_id is A, and its unpaid total is the sum of the amounts of A's
\* Unpaid invoices; and whatever a user of another company requests next,
\* with any target and form, the page computed for A from the tables that
\* request leaves is the same.
C15_DashboardOwnRowsOnly ==
    \A sA \in ValidSessions :
       LET A == sA.company_id
           page == dashboard_page(Tables, A)
       IN  /\ dashboard(sA) = Result(Render("dashboard.html", ""), Tables)
           /\ Lists(page.leads, leads, OwnIds(leads, A))
           /\ Lists(page.jobs, jobs, OwnIds(jobs, A))
           /\ Lists(page.tasks, tasks, OwnIds(tasks, A))
           /\ Lists(page.invoices, invoices, OwnIds(invoices, A))
           /\ page.unpaid_total
                 = SumAmounts({i \in OwnIds(invoices, A) :
                                 invoices[i].status = "Unpaid"})
           /\ \A sB \in ValidSessions :
                 sB.company_id # A
                 => \A r \in TenantResults(sB) : dashboard_page(r.db, A) = page

\* A user has just opened the dashboard of a company whose unpaid total is
\* 150, while another company has an Unpaid invoice, leads, jobs and tasks of
\* its own.
C15_Witness ==
    /\ session["c1"] \in LoggedIn
    /\ req.op = "dashboard"
    /\ resp = Render("dashboard.html", "")
    /\ dashboard_page(Tables, session["c1"].company_id).unpaid_total = 150
    /\ \A rows \in {leads, jobs, tasks} :
          ForeignIds(rows, session["c1"].company_id) # {}
    /\ \E i \in ForeignIds(invoices, session["c1"].company_id) :
          invoices[i].status = "Unpaid"

-----------------------------------------------------------------------------
(* Property of the owner's view, checked under SpecAccounts *)

\* C18: /owner/companies, for any session (a user id of a user row or of none,
\* with any company id), writes nothing and is answered with the redirect to
\* /login when the session has no user id, with the page when the user row
\* of that id has role super_admin, and with 403 otherwise.
C18_OwnerViewSuperAdminOnly ==
    \A s \in [user_id : 0..(Len(users) + 1), company_id : 0..Len(companies)] :
       LET r == owner_companies(s) IN
       /\ r.db = Tables
       /\ r.resp = IF s.user_id = 0 THEN Redirect("login")
                   ELSE IF s.user_id \in SuperAdmins
                   THEN Render("owner_companies.html", "")
                   ELSE Abort(403)

\* A user of role admin has just asked for /owner/companies and got 403.
C18_Witness ==
    /\ req.op = "owner_companies"
    /\ resp = Abort(403)
    /\ \E c \in Clients :
          /\ session[c] \in ValidSessions
          /\ users[session[c].user_id].role = "admin"

-----------------------------------------------------------------------------
(* Property of the date fields, checked under SpecDates *)

\* The date string is four digits, two digits and two digits that name a day
WellFormed(d) == d = "2024-05-01"

\* What is stored for each date field: the field without its padding when
\* that reads as a day, and null otherwise
StoredDate(d) ==
    CASE d = "2024-05-01" -> "2024-05-01"
      [] d = " 2024-05-01 " -> "2024-05-01"
      [] d = "2024-5-1" -> "2024-5-1"
      [] OTHER -> NULL

\* The other fields of the forms that carry a date
InvoiceFields == [a : {"150", "abc"}, t : {"tok1"}]
TaskTitles == {"Call back", None}

\* C21 as stated: convert_lead, create_invoice and add_task, on a row of the
\* caller's company with an otherwise valid form, succeed whatever the date
\* field is, and for a non-empty date field they store the field itself when
\* it is a well-formed YYYY-MM-DD date and null when it is not.
C21_DateStoredAsGivenOrNull ==
    \A s \in LoggedIn : \A d \in DateFields \ {None, ""} :
       LET stored == IF WellFormed(d) THEN d ELSE NULL IN
       /\ \A i \in OwnIds(leads, s.company_id) :
            LET r == convert_lead(s, i, d) IN
            /\ r.resp = Redirect("dashboard")
            /\ r.db.jobs[Len(jobs) + 1].scheduled_date = stored
       /\ \A i \in OwnIds(jobs, s.company_id) :
            /\ LET r == create_invoice(s, i, "150", d, "tok1") IN
               /\ r.resp = Redirect("dashboard")
               /\ r.db.invoices[Len(invoices) + 1].due_date = stored
            /\ LET r == add_task(s, i, "Call back", d) IN
               /\ r.resp = Redirect("dashboard")
               /\ r.db.tasks[Len(tasks) + 1].due_date = stored

\* C21 as amended: the date field never decides the answer. For every
\* session's request, target and form, each of the three handlers answers as
\* it does when the date field is absent, and writes what it writes then,
\* except that the new row's date is the field with its surrounding
\* whitespace removed when strptime reads that as %Y-%m-%d (so a padded date
\* is stored without its padding, and 2024-5-1 as it is), and null for any
\* other field; on a row of the caller's company with an otherwise valid
\* form the request succeeds and adds the row.
C21_DateNeverRejects ==
    \A s \in LoggedIn : \A d \in DateFields :
       /\ \A i \in 0..(Len(leads) + 1) :
            LET r0 == convert_lead(s, i, None)
                r == convert_lead(s, i, d)
            IN  /\ r.resp = r0.resp
                /\ r.db = IF r0.db = Tables THEN Tables
                          ELSE [r0.db EXCEPT
                                  !.jobs[Len(jobs) + 1].scheduled_date
                                     = StoredDate(d)]
                /\ i \in OwnIds(leads, s.company_id)
                   => /\ r.resp = Redirect("dashboard")
                      /\ Len(r.db.jobs) = Len(jobs) + 1
       /\ \A i \in 0..(Len(jobs) + 1) :
            /\ \A f \in InvoiceFields :
                 LET r0 == create_invoice(s, i, f.a, None, f.t)
                     r == create_invoice(s, i, f.a, d, f.t)
                 IN  /\ r.resp = r0.resp
                     /\ r.db = IF r0.db = Tables THEN Tables
                               ELSE [r0.db EXCEPT
                                       !.invoices[Len(invoices) + 1].due_date
                                          = StoredDate(d)]
                     /\ (i \in OwnIds(jobs, s.company_id) /\ f.a = "150")
                        => /\ r.resp = Redirect("dashboard")
                           /\ Len(r.db.invoices) = Len(invoices) + 1
            /\ \A ti \in TaskTitles :
                 LET r0 == add_task(s, i, ti, None)
                     r == add_task(s, i, ti, d)
                 IN  /\ r.resp = r0.resp
                     /\ r.db = IF r0.db = Tables THEN Tables
                               ELSE [r0.db EXCEPT
                                       !.tasks[Len(tasks) + 1].due_date
                                          = StoredDate(d)]
                     /\ (i \in OwnIds(jobs, s.company_id) /\ ti = "Call back")
                        => /\ r.resp = Redirect("dashboard")
                           /\ Len(r.db.tasks) = Len(tasks) + 1

\* A lead has just been converted with a date field of another format, and
\* the job has no date; an invoice made earlier with a padded date has the
\* date without the padding.
C21_Witness ==
    /\ req.op = "convert_lead"
    /\ resp = Redirect("dashboard")
    /\ Len(jobs) > 2
    /\ jobs[Len(jobs)].scheduled_date = NULL
    /\ \E i \in DOMAIN invoices : invoices[i].due_date = "2024-05-01"

-----------------------------------------------------------------------------
(* Properties of the users and the sessions, checked under SpecAccounts *)

\* C22: a start that succeeds leaves a user row, and no step removes one, so
\* while the process serves requests there is a user row; then /setup, for
\* every request, is answered with the redirect to /login and writes nothing
\* (its creation and backfill branch is not reached), and /login, for every
\* session and form, is not answered with the redirect to /setup.
C22_UsersExistWhileServing ==
    /\ [](proc = "up"
          => /\ Len(users) >= 1
             /\ \A f \in AccountForms :
                   setup(f.method, f.company_name, f.username, f.password)
                     = Result(Redirect("login"), Tables)
             /\ \A s \in HeldSessions : \A f \in LoginForms :
                   login(s, f.method, f.username, f.password).resp
                     # Redirect("setup"))
    /\ [][/\ Len(users') >= Len(users)
          /\ (proc # "up" /\ proc' = "up") => super_admin_exists'
          /\ (req'.op = "setup" /\ <<req, resp>>' # <<req, resp>>)
             => /\ resp' = Redirect("login")
                /\ Tables' = Tables
         ]_vars

\* The process has started with the owner as its only user, and a browser
\* has just been given the login page.
C22_Witness ==
    /\ proc = "up"
    /\ req.op = "login"
    /\ resp = Render("login.html", "")
    /\ Len(users) = 1
    /\ users[1].role = "super_admin"

\* C23: a browser's session changes only when a login succeeds (the named
\* user exists and the password matches its hash), when a signup succeeds,
\* or when a logout clears it; a login that fails leaves the session as it
\* was and a logout leaves none; and in every state a session that carries a
\* user id or a company id carries the id of a user row and that user's
\* company_id.
C23_SessionsTraceToUsers ==
    /\ [](/\ \A c \in Clients : session[c] \in ValidSessions \cup {NoSession}
          /\ \A s \in HeldSessions :
               /\ logout(s).session = NoSession
               /\ \A f \in LoginForms :
                    LET r == login(s, f.method, f.username, f.password)
                        matches ==
                           \E i \in DOMAIN users :
                              /\ f.method = "POST"
                              /\ users[i].username = f.username
                              /\ users[i].password_hash
                                   = generate_password_hash(f.password)
                              /\ r.session = [user_id |-> i,
                                              company_id |-> users[i].company_id]
                    IN  IF r.resp = Redirect("dashboard")
                        THEN matches ELSE r.session = s)
    /\ [][\A c \in Clients :
             session'[c] # session[c]
             => \/ req'.op \in {"login", "signup"}
                   /\ resp' = Redirect("dashboard")
                   /\ session'[c] \in ValidSessions'
                \/ req'.op = "logout" /\ session'[c] = NoSession
         ]_vars

====
